---------------------------- MODULE Spec2Model ----------------------------
(***************************************************************************)
(* Model of the xlsx-read crate (src/src/lib.rs): the WorkBook document    *)
(* with its three tables (relations, sheets, strings), the public          *)
(* operations load / list_worksheet / load_worksheet, and the worksheet    *)
(* cell decoder.                                                           *)
(*                                                                         *)
(* Text is modelled as a sequence of characters (one-character strings,    *)
(* or coarser tokens for paths and relationship kinds), so that            *)
(* starts_with, ends_with and the numeric parsers are real computations.   *)
(* Integers parsed from text are kept as canonical decimal numerals        *)
(* (sign + digits without leading zeros) because usize and i64 are 64 bits *)
(* wide and do not fit the model checker's integers.                       *)
(***************************************************************************)
EXTENDS Integers, Sequences, FiniteSets, TLC

(***************************************************************************)
(* Bounds of the model.                                                    *)
(***************************************************************************)
\* how many times load() is called on one document
MaxLoads == 2
\* how many cells one decoded worksheet holds
MaxCells == 2
\* how many c elements one row of a decoded worksheet holds
MaxColumn == 2
\* the same two bounds where only rows and columns vary
MaxGridCells == 3
MaxGridColumn == 3
\* how many cells and how many c elements per row the streams of SpecCell hold
MaxKindCells == 2
MaxKindColumn == 2
\* how many bytes an entry handed to skip_bom holds
MaxBytes == 5

(***************************************************************************)
(* Text helpers                                                            *)
(***************************************************************************)
EmptyStr == << >>

Max(S) == CHOOSE x \in S : \A y \in S : y <= x

\* str::starts_with
StartsWith(s, pre) ==
    /\ Len(s) >= Len(pre)
    /\ SubSeq(s, 1, Len(pre)) = pre

\* str::ends_with
EndsWith(s, suf) ==
    /\ Len(s) >= Len(suf)
    /\ SubSeq(s, Len(s) - Len(suf) + 1, Len(s)) = suf

Digit == {"0", "1", "2", "3", "4", "5", "6", "7", "8", "9"}

DigitVal(c) ==
    CASE c = "0" -> 0 [] c = "1" -> 1 [] c = "2" -> 2 [] c = "3" -> 3
      [] c = "4" -> 4 [] c = "5" -> 5 [] c = "6" -> 6 [] c = "7" -> 7
      [] c = "8" -> 8 [] c = "9" -> 9

AllDigits(s) == \A i \in 1..Len(s) : s[i] \in Digit

\* the digits without leading zeros ("0" for zero): the canonical numeral
RECURSIVE StripLeadingZeros(_)
StripLeadingZeros(ds) ==
    IF Len(ds) > 1 /\ ds[1] = "0" THEN StripLeadingZeros(Tail(ds)) ELSE ds

RECURSIVE StripTrailingZeros(_)
StripTrailingZeros(ds) ==
    IF Len(ds) > 1 /\ ds[Len(ds)] = "0"
    THEN StripTrailingZeros(SubSeq(ds, 1, Len(ds) - 1))
    ELSE ds

\* a <= b for canonical numerals
RECURSIVE LexLeq(_, _)
LexLeq(a, b) ==
    IF a = << >> THEN TRUE
    ELSE IF DigitVal(a[1]) < DigitVal(b[1]) THEN TRUE
    ELSE IF DigitVal(a[1]) > DigitVal(b[1]) THEN FALSE
    ELSE LexLeq(Tail(a), Tail(b))

NumLeq(a, b) ==
    \/ Len(a) < Len(b)
    \/ Len(a) = Len(b) /\ LexLeq(a, b)

\* the value of a short numeral as a model integer
RECURSIVE DigitsToNat(_)
DigitsToNat(ds) ==
    IF ds = << >> THEN 0
    ELSE 10 * DigitsToNat(SubSeq(ds, 1, Len(ds) - 1)) + DigitVal(ds[Len(ds)])

\* usize::MAX = 2^64 - 1, i64::MAX = 2^63 - 1, -i64::MIN = 2^63
UsizeMax == <<"1","8","4","4","6","7","4","4","0","7","3","7","0","9","5","5","1","6","1","5">>
I64Max == <<"9","2","2","3","3","7","2","0","3","6","8","5","4","7","7","5","8","0","7">>
I64MinMag == <<"9","2","2","3","3","7","2","0","3","6","8","5","4","7","7","5","8","0","8">>

Zero == <<"0">>

\* a parsed numeral, or the failure of the parse
Parsed(ok, neg, num) ==
    IF ok THEN [ok |-> TRUE, neg |-> neg /\ num # Zero, num |-> num]
    ELSE [ok |-> FALSE, neg |-> FALSE, num |-> Zero]

IsNeg(text) == Len(text) > 0 /\ text[1] = "-"
IsPos(text) == Len(text) > 0 /\ text[1] = "+"

\* one or more digits, of magnitude at most limit
Magnitude(body, neg, limit) ==
    IF Len(body) > 0 /\ AllDigits(body)
    THEN Parsed(NumLeq(StripLeadingZeros(body), limit), neg, StripLeadingZeros(body))
    ELSE Parsed(FALSE, FALSE, Zero)

\* usize::from_str: an optional "+", then one or more digits, at most usize::MAX
ParseUsize(text) ==
    Magnitude(IF IsPos(text) THEN Tail(text) ELSE text, FALSE, UsizeMax)

\* i64::from_str: an optional sign, then one or more digits, within i64's range
ParseI64(text) ==
    IF IsNeg(text) THEN Magnitude(Tail(text), TRUE, I64MinMag)
    ELSE Magnitude(IF IsPos(text) THEN Tail(text) ELSE text, FALSE, I64Max)

\* position of the first occurrence of one of cs in s, 0 when there is none
FirstOf(s, cs) ==
    IF \E i \in 1..Len(s) : s[i] \in cs
    THEN CHOOSE i \in 1..Len(s) : s[i] \in cs /\ \A j \in 1..(i - 1) : s[j] \notin cs
    ELSE 0

Before(s, pos) == IF pos = 0 THEN s ELSE SubSeq(s, 1, pos - 1)
After(s, pos) == IF pos = 0 THEN << >> ELSE SubSeq(s, pos + 1, Len(s))

NoFloat == [ok |-> FALSE, neg |-> FALSE, mant |-> Zero, exp |-> 0]

\* the decimal neg, digits * 10^exp in lowest terms: digits canonical and
\* without trailing zeros
Decimal(neg, all, mant, exp) ==
    [ok |-> TRUE, neg |-> neg, mant |-> mant,
     exp |-> IF mant = Zero THEN 0 ELSE exp + (Len(all) - Len(mant))]

\* the exponent after "e": an optional sign, then one or more digits
ExponentOf(etext, present) ==
    IF ~present THEN [ok |-> TRUE, val |-> 0]
    ELSE IF IsNeg(etext)
    THEN [ok |-> Len(etext) > 1 /\ AllDigits(Tail(etext)),
          val |-> 0 - DigitsToNat(Tail(etext))]
    ELSE IF IsPos(etext)
    THEN [ok |-> Len(etext) > 1 /\ AllDigits(Tail(etext)),
          val |-> DigitsToNat(Tail(etext))]
    ELSE [ok |-> Len(etext) > 0 /\ AllDigits(etext), val |-> DigitsToNat(etext)]

\* integer part, fraction part and exponent to a value
FloatOf(neg, ipart, fpart, e) ==
    IF AllDigits(ipart) /\ AllDigits(fpart) /\ Len(ipart) + Len(fpart) > 0 /\ e.ok
    THEN Decimal(neg, StripLeadingZeros(ipart \o fpart),
                 StripTrailingZeros(StripLeadingZeros(ipart \o fpart)),
                 e.val - Len(fpart))
    ELSE NoFloat

FloatBody(neg, mtext, etext, hasExp) ==
    FloatOf(neg, Before(mtext, FirstOf(mtext, {"."})),
            After(mtext, FirstOf(mtext, {"."})), ExponentOf(etext, hasExp))

FloatUnsigned(neg, body) ==
    FloatBody(neg, Before(body, FirstOf(body, {"e", "E"})),
              After(body, FirstOf(body, {"e", "E"})),
              FirstOf(body, {"e", "E"}) # 0)

\* f64::from_str on decimal text: [sign] digits [. digits] [e [sign] digits]
\* with at least one mantissa digit.  The value is kept as the exact decimal
\* (distinct decimals of up to 15 significant digits are distinct f64 values).
ParseF64(text) ==
    FloatUnsigned(IsNeg(text), IF IsNeg(text) \/ IsPos(text) THEN Tail(text) ELSE text)

\* the canonical numeral of a model integer
RECURSIVE NatToDigits(_)
NatToDigits(n) ==
    LET d == CHOOSE c \in Digit : DigitVal(c) = n % 10
    IN  IF n < 10 THEN <<d>> ELSE Append(NatToDigits(n \div 10), d)

(***************************************************************************)
(* Tokenizer events (xml::reader::XmlEvent as the code matches on it):     *)
(* start elements with their ordered attribute list, character data, a     *)
(* read error, and every other event (end element, whitespace, ...).       *)
(***************************************************************************)
Attr(n, v) == [name |-> n, value |-> v]

StartElement(n, attrs) ==
    [type |-> "start", name |-> n, attrs |-> attrs, text |-> EmptyStr]

Characters(t) == [type |-> "chars", name |-> "", attrs |-> << >>, text |-> t]

EndElement == [type |-> "end", name |-> "", attrs |-> << >>, text |-> EmptyStr]

XmlError == [type |-> "error", name |-> "", attrs |-> << >>, text |-> EmptyStr]

\* "for attribute in attributes { if local_name == n { x = value } }": the
\* value of the last attribute named n, or the initial value
LastAttr(attrs, n, init) ==
    LET hits == {i \in 1..Len(attrs) : attrs[i].name = n}
    IN  IF hits = {} THEN init ELSE attrs[Max(hits)].value

(***************************************************************************)
(* Values and cells                                                        *)
(***************************************************************************)
ValueString(s) ==
    [tag |-> "String", str |-> s, neg |-> FALSE, num |-> Zero, exp |-> 0]

ValueInteger(neg, num) ==
    [tag |-> "Integer", str |-> EmptyStr, neg |-> neg, num |-> num, exp |-> 0]

ValueFloat(neg, mant, exp) ==
    [tag |-> "Float", str |-> EmptyStr, neg |-> neg, num |-> mant, exp |-> exp]

Cell(r, c, v) == [row |-> r, column |-> c, value |-> v]

(***************************************************************************)
(* load_worksheet: the decoder's loop body                                 *)
(***************************************************************************)
\* the locals of load_worksheet before the first event
DecoderInit ==
    [row |-> Zero, column |-> 0, kind |-> "String", capture_value |-> FALSE,
     cells |-> << >>, status |-> "Running", err |-> "none"]

Fail(st, status, err) == [st EXCEPT !.status = status, !.err = err]

\* the row kept as a count of the row start elements seen
RowAttrsCounting(st, attrs) ==
    IF \E i \in 1..Len(attrs) :
          attrs[i].name = "r" /\ ~ParseUsize(attrs[i].value).ok
    THEN Fail(st, "Err", "ParseInt")
    ELSE [st EXCEPT !.row = NatToDigits(DigitsToNat(st.row) + 1)]

\* the r attributes of a row start element, in order; the first one that
\* does not parse ends the call
RECURSIVE RowAttrs(_, _)
RowAttrs(st, attrs) ==
    IF attrs = << >> THEN st
    ELSE IF Head(attrs).name # "r" THEN RowAttrs(st, Tail(attrs))
    ELSE IF ParseUsize(Head(attrs).value).ok
    THEN RowAttrs([st EXCEPT !.row = ParseUsize(Head(attrs).value).num], Tail(attrs))
    ELSE Fail(st, "Err", "ParseInt")

\* the kind set back to text by a c start element that names no kind
CellKindReset(kind, attrs) ==
    IF LastAttr(attrs, "t", EmptyStr) = <<"n">> THEN "Number" ELSE "String"

\* the t attributes of a c start element, in order
RECURSIVE CellKind(_, _)
CellKind(kind, attrs) ==
    IF attrs = << >> THEN kind
    ELSE IF Head(attrs).name = "t" /\ Head(attrs).value = <<"s">>
    THEN CellKind("String", Tail(attrs))
    ELSE IF Head(attrs).name = "t" /\ Head(attrs).value = <<"n">>
    THEN CellKind("Number", Tail(attrs))
    ELSE CellKind(kind, Tail(attrs))

\* the column not reset at a row start element
OnRowKeepingColumn(st) == st

\* a row start element: its r attributes, then "column = 0"
OnRow(st) == IF st.status = "Running" THEN [st EXCEPT !.column = 0] ELSE st

\* capture_value cleared by row and c start elements only
OnStartElementKeepingCapture(st, ev) ==
    IF ev.name = "row"
    THEN OnRow(RowAttrs([st EXCEPT !.capture_value = FALSE], ev.attrs))
    ELSE IF ev.name = "c"
    THEN [st EXCEPT !.capture_value = FALSE,
                    !.kind = CellKind(st.kind, ev.attrs),
                    !.column = st.column + 1]
    ELSE IF ev.name = "v"
    THEN [st EXCEPT !.capture_value = TRUE]
    ELSE st

OnStartElement(st, ev) ==
    IF ev.name = "row"
    THEN OnRow(RowAttrs([st EXCEPT !.capture_value = FALSE], ev.attrs))
    ELSE IF ev.name = "c"
    THEN [st EXCEPT !.capture_value = FALSE,
                    !.kind = CellKind(st.kind, ev.attrs),
                    !.column = st.column + 1]
    ELSE IF ev.name = "v"
    THEN [st EXCEPT !.capture_value = TRUE]
    ELSE [st EXCEPT !.capture_value = FALSE]

\* a text-kind value: the shared string at the parsed index; indexing the
\* Vec out of range panics
Push(st, value) ==
    [st EXCEPT !.cells = Append(@, Cell(st.row, st.column, value))]

\* the index taken as one-based
StringAtOneBased(st, p, strs) ==
    IF ~p.ok THEN Fail(st, "Err", "ParseInt")
    ELSE IF p.num = Zero \/ NumLeq(NatToDigits(Len(strs) + 1), p.num)
    THEN Fail(st, "Panic", "index")
    ELSE Push(st, ValueString(strs[DigitsToNat(p.num)]))

StringAt(st, p, strs) ==
    IF ~p.ok THEN Fail(st, "Err", "ParseInt")
    ELSE IF NumLeq(NatToDigits(Len(strs)), p.num) THEN Fail(st, "Panic", "index")
    ELSE Push(st, ValueString(strs[DigitsToNat(p.num) + 1]))

DecodeString(st, text, strs) == StringAt(st, ParseUsize(text), strs)

\* a number-kind value: i64 first, f64 when that fails
\* the float parse tried first
NumberOfFloatFirst(st, i, f) ==
    IF f.ok THEN Push(st, ValueFloat(f.neg, f.mant, f.exp))
    ELSE IF i.ok THEN Push(st, ValueInteger(i.neg, i.num))
    ELSE Fail(st, "Err", "ParseFloat")

NumberOf(st, i, f) ==
    IF i.ok THEN Push(st, ValueInteger(i.neg, i.num))
    ELSE IF f.ok THEN Push(st, ValueFloat(f.neg, f.mant, f.exp))
    ELSE Fail(st, "Err", "ParseFloat")

DecodeNumber(st, text) == NumberOf(st, ParseI64(text), ParseF64(text))

OnCharacters(st, ev, strs) ==
    IF ~st.capture_value THEN st
    ELSE IF st.kind = "String" THEN DecodeString(st, ev.text, strs)
    ELSE DecodeNumber(st, ev.text)

\* one iteration of "for ev in reader { match ev { ... } }"
DecodeEvent(st, ev, strs) ==
    CASE ev.type = "start" -> OnStartElement(st, ev)
      [] ev.type = "chars" -> OnCharacters(st, ev, strs)
      [] ev.type = "error" -> Fail(st, "Err", "XmlRead")
      [] OTHER -> st

\* the whole loop over an event stream: it ends at the first failure
RECURSIVE DecodeFrom(_, _, _)
DecodeFrom(st, events, strs) ==
    IF events = << >> \/ st.status # "Running" THEN st
    ELSE DecodeFrom(DecodeEvent(st, Head(events), strs), Tail(events), strs)

(***************************************************************************)
(* The document: archive and tables                                        *)
(***************************************************************************)
VARIABLES
    archive,    \* zip::ZipArchive: the entries in archive index order
    relations,  \* WorkBook.relations: id -> [target, kind]
    sheets,     \* WorkBook.sheets: name -> [id, relation]
    strings,    \* WorkBook.strings
    iterFirst,  \* the entry a HashMap iteration meets first, per suffix
    loads,      \* how many times load() was called
    last,       \* the most recent public call and what it returned
    prev,       \* the public call before it
    aborted,    \* a panic unwound the caller
    dec,        \* load_worksheet's locals while its loop runs
    decoded,    \* the character data decoded last, and the kind it had
    rowSeen,    \* the r attributes of the most recent row start element
    cSinceRow,  \* c start elements since the most recent row start element
    cSeen,      \* the attributes of the most recent c start element
    lastStart,  \* the name of the most recent start element
    sinceC,     \* cells pushed since the most recent c or row start element
    loaded,     \* a call of load() has returned Ok
    reader      \* skip_bom's reader: the entry's bytes and the cursor

docVars == <<archive, relations, sheets, strings, iterFirst, loads, last, prev, aborted>>
decVars == <<dec, decoded, rowSeen, cSinceRow, cSeen, lastStart, sinceC>>
vars == <<docVars, decVars, loaded, reader>>

EmptyMap == [x \in {} |-> x]

\* an insert that keeps the value a key already has
InsertKeepingFirst(map, key, value) == map @@ (key :> value)

\* HashMap::insert
Insert(map, key, value) == (key :> value) @@ map

RelsSuffix == <<".rels">>
OfficeDocumentSuffix == <<"/officeDocument">>
SharedStringsSuffix == <<"/sharedStrings">>

\* ZipArchive::by_name: the index of the entry, 0 when there is none
ByName(arch, name) ==
    LET hits == {i \in 1..Len(arch) : arch[i].name = name}
    IN  IF hits = {} THEN 0 ELSE Max(hits)

\* load_xml: the entry's events; a missing entry is a Zip error, a failed
\* read of the entry's bytes panics in unwrap()
LoadXml(arch, name) ==
    LET i == ByName(arch, name)
    IN  IF i = 0 THEN [status |-> "Err", err |-> "Zip", events |-> << >>]
        ELSE IF ~arch[i].readable
        THEN [status |-> "Panic", err |-> "unwrap", events |-> << >>]
        ELSE [status |-> "Ok", err |-> "none", events |-> arch[i].events]

\* the Relation a Relationship element inserts, and its key
StripSlash(t) == IF StartsWith(t, <<"/">>) THEN Tail(t) ELSE t

RelationOf(attrs) ==
    [target |-> StripSlash(LastAttr(attrs, "Target", EmptyStr)),
     kind   |-> LastAttr(attrs, "Type", EmptyStr)]

RelationId(attrs) == LastAttr(attrs, "Id", EmptyStr)

RECURSIVE LoadRelations(_, _)
LoadRelations(rels, events) ==
    IF events = << >> THEN [status |-> "Ok", err |-> "none", relations |-> rels]
    ELSE LET ev == Head(events)
         IN  IF ev.type = "error"
             THEN [status |-> "Err", err |-> "XmlRead", relations |-> rels]
             ELSE IF ev.type = "start" /\ ev.name = "Relationship"
             THEN LoadRelations(
                      Insert(rels, RelationId(ev.attrs), RelationOf(ev.attrs)),
                      Tail(events))
             ELSE LoadRelations(rels, Tail(events))

\* load_relationships from archive index i on
RECURSIVE LoadRelationshipsFrom(_, _, _)
LoadRelationshipsFrom(arch, rels, i) ==
    IF i > Len(arch) THEN [status |-> "Ok", err |-> "none", relations |-> rels]
    ELSE IF ~EndsWith(arch[i].name, RelsSuffix)
    THEN LoadRelationshipsFrom(arch, rels, i + 1)
    ELSE LET x == LoadXml(arch, arch[i].name)
             r == LoadRelations(rels, x.events)
         IN  IF x.status # "Ok"
             THEN [status |-> x.status, err |-> x.err, relations |-> rels]
             ELSE IF r.status # "Ok" THEN r
             ELSE LoadRelationshipsFrom(arch, r.relations, i + 1)

LoadRelationships(arch, rels) == LoadRelationshipsFrom(arch, rels, 1)

\* the ids whose relation kind ends in the suffix
Matching(rels, suffix) ==
    {id \in DOMAIN rels : EndsWith(rels[id].kind, suffix)}

\* "for (_, relation) in relations.iter() { if ends_with { path = target;
\* break } }": the target of the match the iteration meets first, "" if none
PathOf(rels, first) == IF first \in DOMAIN rels THEN rels[first].target ELSE EmptyStr

SheetOf(attrs) ==
    [id       |-> LastAttr(attrs, "sheetId", EmptyStr),
     relation |-> LastAttr(attrs, "id", EmptyStr)]

\* the key taken from the sheetId attribute instead of name
SheetNameFromId(attrs) == LastAttr(attrs, "sheetId", EmptyStr)

SheetName(attrs) == LastAttr(attrs, "name", EmptyStr)

\* the event loop of load_workbook
RECURSIVE LoadSheets(_, _)
LoadSheets(shs, events) ==
    IF events = << >> THEN [status |-> "Ok", err |-> "none", sheets |-> shs]
    ELSE LET ev == Head(events)
         IN  IF ev.type = "error"
             THEN [status |-> "Err", err |-> "XmlRead", sheets |-> shs]
             ELSE IF ev.type = "start" /\ ev.name = "sheet"
             THEN LoadSheets(Insert(shs, SheetName(ev.attrs), SheetOf(ev.attrs)),
                             Tail(events))
             ELSE LoadSheets(shs, Tail(events))

\* the loop with a store flag that no start element clears
RECURSIVE LoadStringsOnceStoring(_, _, _)
LoadStringsOnceStoring(strs, store, events) ==
    IF events = << >> THEN [status |-> "Ok", err |-> "none", strings |-> strs]
    ELSE LET ev == Head(events)
         IN  IF ev.type = "error"
             THEN [status |-> "Err", err |-> "XmlRead", strings |-> strs]
             ELSE IF ev.type = "start"
             THEN LoadStringsOnceStoring(strs, store \/ ev.name = "t", Tail(events))
             ELSE IF ev.type = "chars" /\ store
             THEN LoadStringsOnceStoring(Append(strs, ev.text), store, Tail(events))
             ELSE LoadStringsOnceStoring(strs, store, Tail(events))

\* the event loop of load_shared_strings
RECURSIVE LoadStrings(_, _, _)
LoadStrings(strs, store, events) ==
    IF events = << >> THEN [status |-> "Ok", err |-> "none", strings |-> strs]
    ELSE LET ev == Head(events)
         IN  IF ev.type = "error"
             THEN [status |-> "Err", err |-> "XmlRead", strings |-> strs]
             ELSE IF ev.type = "start"
             THEN LoadStrings(strs, ev.name = "t", Tail(events))
             ELSE IF ev.type = "chars" /\ store
             THEN LoadStrings(Append(strs, ev.text), store, Tail(events))
             ELSE LoadStrings(strs, store, Tail(events))

(***************************************************************************)
(* The public operations as functions of the document state                *)
(***************************************************************************)
NoMatch == <<"(no match)">>

\* what a HashMap iteration can meet first among the matching entries: any
\* of them, and the same one again while the map is the same
FirstChoices(rels, suffix, memo) ==
    LET m == Matching(rels, suffix)
    IN  IF m = {} THEN {NoMatch}
        ELSE IF memo \in m THEN {memo}
        ELSE m

\* load_workbook, with wb the relation its iteration meets first
LoadWorkbook(arch, rels, shs, wb) ==
    LET x == LoadXml(arch, IF wb = NoMatch THEN EmptyStr ELSE PathOf(rels, wb))
    IN  IF x.status # "Ok"
        THEN [status |-> x.status, err |-> x.err, sheets |-> shs]
        ELSE LoadSheets(shs, x.events)

\* load_shared_strings, with ss the relation its iteration meets first
LoadSharedStrings(arch, rels, strs, ss) ==
    LET x == LoadXml(arch, IF ss = NoMatch THEN EmptyStr ELSE PathOf(rels, ss))
    IN  IF x.status # "Ok"
        THEN [status |-> x.status, err |-> x.err, strings |-> strs]
        ELSE LoadStrings(strs, FALSE, x.events)

\* load undoing what its stages inserted when one of them fails
DoLoadRollingBack(arch, rels, shs, strs, wb, ss) ==
    LET r1 == LoadRelationships(arch, rels)
        r2 == LoadWorkbook(arch, r1.relations, shs, wb)
        r3 == LoadSharedStrings(arch, r1.relations, strs, ss)
    IN  IF r1.status # "Ok"
        THEN [status |-> r1.status, err |-> r1.err,
              stages |-> <<"relationships">>,
              relations |-> rels, sheets |-> shs, strings |-> strs]
        ELSE IF r2.status # "Ok"
        THEN [status |-> r2.status, err |-> r2.err,
              stages |-> <<"relationships", "workbook">>,
              relations |-> rels, sheets |-> shs, strings |-> strs]
        ELSE IF r3.status # "Ok"
        THEN [status |-> r3.status, err |-> r3.err,
              stages |-> <<"relationships", "workbook", "shared_strings">>,
              relations |-> rels, sheets |-> shs, strings |-> strs]
        ELSE [status |-> r3.status, err |-> r3.err,
              stages |-> <<"relationships", "workbook", "shared_strings">>,
              relations |-> r1.relations, sheets |-> r2.sheets,
              strings |-> r3.strings]

\* load: the three stages in order, each "?" returning the first failure
DoLoad(arch, rels, shs, strs, wb, ss) ==
    LET r1 == LoadRelationships(arch, rels)
        r2 == LoadWorkbook(arch, r1.relations, shs, wb)
        r3 == LoadSharedStrings(arch, r1.relations, strs, ss)
    IN  IF r1.status # "Ok"
        THEN [status |-> r1.status, err |-> r1.err,
              stages |-> <<"relationships">>,
              relations |-> r1.relations, sheets |-> shs, strings |-> strs]
        ELSE IF r2.status # "Ok"
        THEN [status |-> r2.status, err |-> r2.err,
              stages |-> <<"relationships", "workbook">>,
              relations |-> r1.relations, sheets |-> r2.sheets, strings |-> strs]
        ELSE [status |-> r3.status, err |-> r3.err,
              stages |-> <<"relationships", "workbook", "shared_strings">>,
              relations |-> r1.relations, sheets |-> r2.sheets,
              strings |-> r3.strings]

\* load_worksheet: HashMap indexing panics on a missing key
DoLoadWorksheet(arch, rels, shs, strs, name) ==
    IF name \notin DOMAIN shs
    THEN [status |-> "Panic", err |-> "index", val |-> << >>]
    ELSE IF shs[name].relation \notin DOMAIN rels
    THEN [status |-> "Panic", err |-> "index", val |-> << >>]
    ELSE LET x == LoadXml(arch, rels[shs[name].relation].target)
             d == DecodeFrom(DecoderInit, x.events, strs)
         IN  IF x.status # "Ok"
             THEN [status |-> x.status, err |-> x.err, val |-> << >>]
             ELSE IF d.status = "Running"
             THEN [status |-> "Ok", err |-> "none", val |-> d.cells]
             ELSE [status |-> d.status, err |-> d.err, val |-> << >>]

\* the orders in which iterating a HashMap's keys can yield them
KeyOrders(map) ==
    {q \in [1..Cardinality(DOMAIN map) -> DOMAIN map] :
        \A i, j \in DOMAIN q : i # j => q[i] # q[j]}

Call(op, arg, status, err, val, stages) ==
    [op |-> op, arg |-> arg, status |-> status, err |-> err, val |-> val,
     stages |-> stages]

NoCall == Call("none", EmptyStr, "none", "none", << >>, << >>)

(***************************************************************************)
(* The archives the document is opened on                                  *)
(***************************************************************************)
Entry(name, readable, events) ==
    [name |-> name, readable |-> readable, events |-> events]

RootRelsName == <<"_rels/", ".rels">>
BookRelsName == <<"xl/_rels/workbook.xml", ".rels">>
WorkbookName == <<"xl/workbook.xml">>
StringsName == <<"xl/sharedStrings.xml">>
Sheet1Name == <<"xl/worksheets/sheet1.xml">>

RelNs == "http://schemas.openxmlformats.org/officeDocument/2006/relationships"
OfficeDocumentKind == <<RelNs, "/officeDocument">>
SharedStringsKind == <<RelNs, "/sharedStrings">>
WorksheetKind == <<RelNs, "/worksheet">>
UnknownKind == <<RelNs, "/extended-properties">>

Relationship(id, target, kind) ==
    StartElement("Relationship",
        <<Attr("Id", <<id>>), Attr("Type", kind), Attr("Target", target)>>)

SheetElement(name, sheetId, rid) ==
    StartElement("sheet",
        <<Attr("name", <<name>>), Attr("sheetId", <<sheetId>>), Attr("id", <<rid>>)>>)

\* the contents of _rels/.rels
RootRelsChoices ==
    { <<StartElement("Relationships", << >>),
        Relationship("rId1", <<"/">> \o WorkbookName, OfficeDocumentKind),
        Relationship("rId9", <<"docProps/app.xml">>, UnknownKind),
        EndElement>>,
      <<StartElement("Relationships", << >>), EndElement>>,
      <<Relationship("rId1", WorkbookName, OfficeDocumentKind),
        Relationship("rId7", <<"/">> \o StringsName, OfficeDocumentKind)>>,
      <<Relationship("rId1", WorkbookName, OfficeDocumentKind), XmlError>> }

\* the contents of xl/_rels/workbook.xml.rels
BookRelsChoices ==
    { <<Relationship("rId2", Sheet1Name, WorksheetKind),
        Relationship("rId4", StringsName, SharedStringsKind)>>,
      <<Relationship("rId1", Sheet1Name, WorksheetKind),
        Relationship("rId4", StringsName, SharedStringsKind)>>,
      <<Relationship("rId2", Sheet1Name, WorksheetKind)>>,
      <<Relationship("rId2", Sheet1Name, WorksheetKind),
        Relationship("rId4", StringsName, SharedStringsKind),
        Relationship("rId5", WorkbookName, SharedStringsKind)>>,
      <<Relationship("rId2", WorkbookName, WorksheetKind),
        Relationship("rId4", StringsName, SharedStringsKind),
        Relationship("rId2", Sheet1Name, WorksheetKind)>> }

WorkbookBase ==
    <<StartElement("workbook", << >>),
      SheetElement("S1", "1", "rId2"), SheetElement("S2", "2", "rId3")>>

\* the contents of xl/workbook.xml
WorkbookChoices ==
    { WorkbookBase,
      <<SheetElement("S1", "1", "rId2")>>,
      << >>,
      <<SheetElement("S1", "1", "rId2"), XmlError,
        SheetElement("S2", "2", "rId2")>>,
      <<StartElement("sheet", <<Attr("sheetId", <<"1">>), Attr("id", <<"rId2">>)>>)>>,
      <<SheetElement("S1", "1", "rId3"), SheetElement("S1", "2", "rId2")>> }

StringItem(t) ==
    <<StartElement("si", << >>), StartElement("t", << >>), Characters(<<t>>),
      EndElement, EndElement>>

StringsBase == StringItem("a") \o StringItem("b") \o StringItem("c")

\* the contents of xl/sharedStrings.xml
StringsChoices ==
    { StringsBase,
      << >>,
      StringItem("a") \o <<XmlError>> \o StringItem("b") }

\* character data after the end of a t element and after another start element
StringsMixed ==
    <<StartElement("t", << >>), Characters(<<"a">>), EndElement,
      Characters(<<"b">>), StartElement("r", << >>), Characters(<<"c">>)>>

RowElement(r) == StartElement("row", <<Attr("r", r)>>)
CElement(t) == StartElement("c", <<Attr("r", <<"C", "7">>), Attr("t", <<t>>)>>)
VElement == StartElement("v", << >>)

SheetBase ==
    <<StartElement("sheetData", << >>),
      RowElement(<<"1">>),
      CElement("s"), VElement, Characters(<<"0">>), EndElement, EndElement,
      CElement("n"), VElement, Characters(<<"4", "2">>), EndElement, EndElement,
      EndElement,
      RowElement(<<"5">>),
      StartElement("c", << >>), VElement, Characters(<<"3", ".", "1", "4">>)>>

\* the contents of xl/worksheets/sheet1.xml, and whether its bytes can be read
SheetChoices ==
    { [readable |-> TRUE, events |-> SheetBase],
      [readable |-> TRUE, events |->
          <<RowElement(<<"1">>), CElement("s"), VElement, Characters(<<"5">>)>>],
      [readable |-> TRUE, events |->
          <<RowElement(<<"x">>), CElement("n"), VElement, Characters(<<"1">>)>>],
      [readable |-> TRUE, events |->
          <<RowElement(<<"1">>), CElement("n"), VElement, Characters(<<"x">>)>>],
      [readable |-> FALSE, events |-> << >>] }

\* the part contents: every pair of relationship parts, with the other parts
\* varied one at a time
Contents ==
    LET others ==
            {<<w, StringsBase, [readable |-> TRUE, events |-> SheetBase]>> :
                w \in WorkbookChoices}
            \cup {<<WorkbookBase, t, [readable |-> TRUE, events |-> SheetBase]>> :
                t \in StringsChoices \cup {StringsMixed}}
            \cup {<<WorkbookBase, StringsBase, h>> : h \in SheetChoices}
    IN  {<<rr, br, o[1], o[2], o[3]>> :
            rr \in RootRelsChoices, br \in BookRelsChoices, o \in others}

EntriesOf(c) ==
    <<Entry(RootRelsName, TRUE, c[1]),
      Entry(WorkbookName, TRUE, c[3]),
      Entry(BookRelsName, TRUE, c[2]),
      Entry(StringsName, TRUE, c[4]),
      Entry(Sheet1Name, c[5].readable, c[5].events)>>

Rotate(q, k) == [i \in 1..Len(q) |-> q[((i + k - 1) % Len(q)) + 1]]
Reverse(q) == [i \in 1..Len(q) |-> q[Len(q) + 1 - i]]

\* the archive index orders: every rotation of the entries and of their reverse
Orders(q) ==
    {Rotate(q, k) : k \in 0..(Len(q) - 1)}
    \cup {Rotate(Reverse(q), k) : k \in 0..(Len(q) - 1)}

Archives == UNION {Orders(EntriesOf(c)) : c \in Contents}

\* the names load_worksheet is called with
SheetNames == {<<"S1">>, <<"S2">>, <<"S3">>}

(***************************************************************************)
(* Specification of the document: WorkBook::open, then public calls        *)
(***************************************************************************)
DecoderIdle ==
    /\ dec = DecoderInit
    /\ decoded = [text |-> EmptyStr, kind |-> "none"]
    /\ rowSeen = << >>
    /\ cSinceRow = 0
    /\ cSeen = << >>
    /\ lastStart = "none"
    /\ sinceC = 0

\* no part is being opened
ReaderIdle == reader = [bytes |-> << >>, pos |-> 0, state |-> "idle"]

Init ==
    /\ archive \in Archives
    /\ relations = EmptyMap
    /\ sheets = EmptyMap
    /\ strings = << >>
    /\ iterFirst = [wb |-> NoMatch, ss |-> NoMatch]
    /\ loads = 0
    /\ last = NoCall
    /\ prev = NoCall
    /\ aborted = FALSE
    /\ DecoderIdle
    /\ loaded = FALSE
    /\ ReaderIdle

\* pub fn load
Load ==
    /\ ~aborted
    /\ loads < MaxLoads
    /\ LET r1 == LoadRelationships(archive, relations)
       IN  \E wb \in FirstChoices(r1.relations, OfficeDocumentSuffix, iterFirst.wb),
              ss \in FirstChoices(r1.relations, SharedStringsSuffix, iterFirst.ss) :
             LET out == DoLoad(archive, relations, sheets, strings, wb, ss)
             IN  /\ relations' = out.relations
                 /\ sheets' = out.sheets
                 /\ strings' = out.strings
                 /\ iterFirst' =
                      [wb |-> IF Len(out.stages) >= 2 THEN wb ELSE iterFirst.wb,
                       ss |-> IF Len(out.stages) >= 3 THEN ss ELSE iterFirst.ss]
                 /\ last' = Call("load", EmptyStr, out.status, out.err, << >>,
                                 out.stages)
                 /\ aborted' = (out.status = "Panic")
    /\ loads' = loads + 1
    /\ prev' = last
    /\ loaded' = (loaded \/ last'.status = "Ok")
    /\ UNCHANGED <<archive, decVars, reader>>

\* pub fn list_worksheet
ListWorksheet ==
    /\ ~aborted
    /\ \E q \in KeyOrders(sheets) :
           last' = Call("list_worksheet", EmptyStr, "Ok", "none", q, << >>)
    /\ prev' = last
    /\ UNCHANGED <<archive, relations, sheets, strings, iterFirst, loads, aborted,
                   decVars, loaded, reader>>

\* load_worksheet moving the shared strings out of the document
LoadWorksheetTakingStrings(name) ==
    /\ ~aborted
    /\ LET out == DoLoadWorksheet(archive, relations, sheets, strings, name)
       IN  /\ last' = Call("load_worksheet", name, out.status, out.err, out.val,
                           << >>)
           /\ aborted' = (out.status = "Panic")
    /\ strings' = << >>
    /\ prev' = last
    /\ UNCHANGED <<archive, relations, sheets, iterFirst, loads, decVars, loaded,
                   reader>>

\* pub fn load_worksheet
LoadWorksheet(name) ==
    /\ ~aborted
    /\ LET out == DoLoadWorksheet(archive, relations, sheets, strings, name)
       IN  /\ last' = Call("load_worksheet", name, out.status, out.err, out.val,
                           << >>)
           /\ aborted' = (out.status = "Panic")
    /\ prev' = last
    /\ UNCHANGED <<archive, relations, sheets, strings, iterFirst, loads, decVars,
                   loaded, reader>>

Next ==
    \/ Load
    \/ ListWorksheet
    \/ \E name \in SheetNames : LoadWorksheet(name)

Spec == Init /\ [][Next]_vars

(***************************************************************************)
(* Properties of the document                                              *)
(***************************************************************************)
Range(q) == {q[i] : i \in DOMAIN q}

NoDuplicates(q) == \A i, j \in DOMAIN q : i # j => q[i] # q[j]

\* the events of the relationship parts, and of the part named name
RelsEvents(arch) ==
    UNION {Range(arch[i].events) :
             i \in {j \in DOMAIN arch : EndsWith(arch[j].name, RelsSuffix)}}

PartEvents(arch, name) ==
    UNION {Range(arch[i].events) : i \in {j \in DOMAIN arch : arch[j].name = name}}

\* the targets of the office-document relationships the archive declares
OfficeDocumentTargets(arch) ==
    {RelationOf(e.attrs).target :
        e \in {x \in RelsEvents(arch) :
                 /\ x.type = "start" /\ x.name = "Relationship"
                 /\ EndsWith(RelationOf(x.attrs).kind, OfficeDocumentSuffix)}}

\* the sheet elements of the workbook part, and the names they declare
SheetElements(arch) ==
    {e \in UNION {PartEvents(arch, t) : t \in OfficeDocumentTargets(arch)} :
        e.type = "start" /\ e.name = "sheet"}

DeclaredSheetNames(arch) ==
    {a.value : a \in {b \in UNION {Range(e.attrs) : e \in SheetElements(arch)} :
                        b.name = "name"}}

\* a valid archive: its office-document relationships name one workbook part,
\* and every sheet element of that part has a name
ValidArchive(arch) ==
    /\ Cardinality(OfficeDocumentTargets(arch)) = 1
    /\ \A e \in SheetElements(arch) : \E a \in Range(e.attrs) : a.name = "name"

LoadedOk(c) == c.op = "load" /\ c.status = "Ok"

\* C1: on a valid archive, once load() has succeeded the sheet table's keys,
\* and the list list_worksheet() returns right after it (as a set, without
\* repetition), are exactly the names of the sheet elements of the workbook
\* part, whatever the order of the archive's entries.
C1_ListIsDeclaredNames ==
    ValidArchive(archive) =>
        /\ LoadedOk(last) => DOMAIN sheets = DeclaredSheetNames(archive)
        /\ (last.op = "list_worksheet" /\ LoadedOk(prev)) =>
               /\ Range(last.val) = DeclaredSheetNames(archive)
               /\ NoDuplicates(last.val)

\* two sheets listed after a successful load of an archive whose relationship
\* parts are not its first entries
C1_Witness ==
    /\ ValidArchive(archive)
    /\ last.op = "list_worksheet" /\ LoadedOk(prev)
    /\ Range(last.val) = {<<"S1">>, <<"S2">>}
    /\ ~EndsWith(archive[1].name, RelsSuffix)
    /\ archive[5].name = RootRelsName

\* C2: load_worksheet(name) with a name that is no key of the sheet table
\* returns an error to its caller (before load, after load, after a failed
\* load).
C2_MissingNameIsError ==
    (last.op = "load_worksheet" /\ last.arg \notin DOMAIN sheets) =>
        (last.status = "Err" /\ ~aborted)

\* C3: with no office-document relationship in the relationship table the
\* workbook stage of load() is no error: the sheet table stays empty, the
\* shared-strings stage runs, and list_worksheet() then returns the empty list.
C3_NoOfficeDocumentIsEmpty ==
    Matching(relations, OfficeDocumentSuffix) = {} =>
        /\ (last.op = "load" /\ Len(last.stages) >= 2) =>
               /\ sheets = EmptyMap
               /\ Len(last.stages) = 3
        /\ (last.op = "list_worksheet" /\ prev.op = "load"
              /\ Len(prev.stages) >= 2) => last.val = << >>

\* C4: with no shared-strings relationship in the relationship table the
\* shared-strings stage of load() is no error: load() returns success and the
\* shared-string table is empty.
C4_NoSharedStringsIsEmpty ==
    (/\ Matching(relations, SharedStringsSuffix) = {}
     /\ last.op = "load" /\ Len(last.stages) = 3) =>
        (last.status = "Ok" /\ strings = << >>)

\* C5: two consecutive calls of load_worksheet with the same name return the
\* same outcome: the same error, or cell lists equal element by element.
C5_RepeatableLoadWorksheet ==
    (/\ last.op = "load_worksheet" /\ prev.op = "load_worksheet"
     /\ last.arg = prev.arg) =>
        /\ last.status = prev.status
        /\ last.err = prev.err
        /\ Len(last.val) = Len(prev.val)
        /\ \A i \in 1..Len(last.val) :
              /\ last.val[i].row = prev.val[i].row
              /\ last.val[i].column = prev.val[i].column
              /\ last.val[i].value = prev.val[i].value

\* a loaded document whose sheet was decoded twice, to three cells one of
\* which is a shared string
C5_Witness ==
    /\ last.op = "load_worksheet" /\ prev.op = "load_worksheet"
    /\ last.arg = prev.arg
    /\ last.status = "Ok" /\ prev.status = "Ok"
    /\ Len(last.val) = 3
    /\ last.val[1].value.tag = "String"
    /\ loads > 0

(***************************************************************************)
(* Specification of the worksheet decoder: load_worksheet on a document    *)
(* after load(), its loop taking one tokenizer event per step.  The         *)
(* worksheet part's content is whatever the tokenizer delivers: the sheet   *)
(* entry of the archive is left without events here.                       *)
(***************************************************************************)
SheetArchives ==
    {EntriesOf(<<rr, br, WorkbookBase, t, [readable |-> TRUE, events |-> << >>]>>) :
        rr \in {x \in RootRelsChoices : Len(x) = 4},
        br \in {x \in BookRelsChoices : Len(x) = 2 /\ RelationId(x[1].attrs) = <<"rId2">>},
        t \in StringsChoices}

\* the attributes of the row and c start elements, and the character data
RowAttrChoices ==
    { << >>, <<Attr("r", <<"1">>)>>, <<Attr("r", <<"x">>)>> }

CAttrChoices ==
    { << >>, <<Attr("t", <<"s">>)>>, <<Attr("t", <<"n">>)>>,
      <<Attr("r", <<"C", "7">>), Attr("t", <<"b">>)>> }

StartEvents ==
    {StartElement("row", a) : a \in RowAttrChoices}
    \cup {StartElement("c", a) : a \in CAttrChoices}
    \cup {VElement, StartElement("f", << >>)}

CellTexts ==
    { <<"0">>, <<"2">>, <<"4", "2">>, <<"3", ".", "1", "4">>, <<"x">>, I64MinMag }

SheetInit ==
    /\ archive \in SheetArchives
    /\ \E out \in {DoLoad(archive, EmptyMap, EmptyMap, << >>, <<"rId1">>, <<"rId4">>)} :
          /\ relations = out.relations
          /\ sheets = out.sheets
          /\ strings = out.strings
          /\ last = Call("load", EmptyStr, out.status, out.err, << >>, out.stages)
    /\ iterFirst = [wb |-> <<"rId1">>, ss |-> <<"rId4">>]
    /\ loads = 1
    /\ prev = NoCall
    /\ aborted = FALSE
    /\ DecoderIdle
    /\ loaded = (last.status = "Ok")
    /\ ReaderIdle

IsStart(ev, n) == ev.type = "start" /\ ev.name = n

\* one iteration of the loop on event ev; a failure ends the call
Iterate(ev, maxCells, maxColumn) ==
    /\ ~aborted
    /\ dec.status = "Running"
    /\ Len(dec.cells) < maxCells
    /\ IsStart(ev, "c") => dec.column < maxColumn
    /\ dec' = DecodeEvent(dec, ev, strings)
    /\ decoded' = IF ev.type = "chars" /\ dec.capture_value
                  THEN [text |-> ev.text, kind |-> dec.kind]
                  ELSE decoded
    /\ rowSeen' = IF IsStart(ev, "row") THEN <<ev.attrs>> ELSE rowSeen
    /\ cSinceRow' = IF IsStart(ev, "row") THEN 0
                    ELSE IF IsStart(ev, "c") THEN cSinceRow + 1
                    ELSE cSinceRow
    /\ IF dec'.status = "Running"
       THEN UNCHANGED <<last, prev, aborted>>
       ELSE /\ last' = Call("load_worksheet", <<"S1">>, dec'.status, dec'.err,
                            << >>, << >>)
            /\ prev' = last
            /\ aborted' = (dec'.status = "Panic")
    /\ UNCHANGED <<archive, relations, sheets, strings, iterFirst, loads, loaded,
                   reader>>

\* the iteration, without a record of the start elements it has met
Step(ev, maxCells, maxColumn) ==
    /\ Iterate(ev, maxCells, maxColumn)
    /\ UNCHANGED <<cSeen, lastStart, sinceC>>

\* Ok(XmlEvent::StartElement {..})
SheetStartElement == \E ev \in StartEvents : Step(ev, MaxCells, MaxColumn)

\* Ok(XmlEvent::Characters(text))
SheetCharacters == \E t \in CellTexts : Step(Characters(t), MaxCells, MaxColumn)

\* Err(error)
SheetError == Step(XmlError, MaxCells, MaxColumn)

\* _ => {}
SheetOther == Step(EndElement, MaxCells, MaxColumn)

\* the reader is exhausted: Ok(sheet)
SheetEnd ==
    /\ ~aborted
    /\ dec.status = "Running"
    /\ dec' = [dec EXCEPT !.status = "Done"]
    /\ last' = Call("load_worksheet", <<"S1">>, "Ok", "none", dec.cells, << >>)
    /\ prev' = last
    /\ UNCHANGED <<archive, relations, sheets, strings, iterFirst, loads, aborted,
                   decoded, rowSeen, cSinceRow, cSeen, lastStart, sinceC, loaded,
                   reader>>

SheetNext ==
    \/ SheetStartElement
    \/ SheetCharacters
    \/ SheetError
    \/ SheetOther
    \/ SheetEnd

SpecSheet == SheetInit /\ [][SheetNext]_vars

(***************************************************************************)
(* Specification of the decoder's row and column tracking: the same loop   *)
(* on longer streams, over more row numbers and with one cell text.        *)
(***************************************************************************)
GridStartEvents ==
    {StartElement("row", a) :
        a \in { << >>, <<Attr("r", <<"1">>)>>, <<Attr("r", <<"5">>)>>,
                <<Attr("r", <<"x">>)>>,
                <<Attr("spans", <<"1", ":", "3">>), Attr("r", <<"+", "0", "5">>)>> }}
    \cup {StartElement("c", a) : a \in { << >>, <<Attr("r", <<"C", "7">>)>> }}
    \cup {VElement, StartElement("f", << >>)}

GridStartElement == \E ev \in GridStartEvents : Step(ev, MaxGridCells, MaxGridColumn)

GridCharacters == Step(Characters(<<"0">>), MaxGridCells, MaxGridColumn)

GridError == Step(XmlError, MaxGridCells, MaxGridColumn)

GridOther == Step(EndElement, MaxGridCells, MaxGridColumn)

GridNext ==
    \/ GridStartElement
    \/ GridCharacters
    \/ GridError
    \/ GridOther
    \/ SheetEnd

SpecGrid == SheetInit /\ [][GridNext]_vars

(***************************************************************************)
(* Specification of the decoder's kind and capture flag: the same loop on  *)
(* a document with three shared strings, with a record of the start        *)
(* elements met: the attributes of the last c, the name of the last start  *)
(* element and the cells pushed since the last c or row.                   *)
(***************************************************************************)
CellInit == SheetInit /\ Len(strings) = 3

CellStartEvents ==
    {StartElement("row", a) : a \in { << >>, <<Attr("r", <<"5">>)>> }}
    \cup {StartElement("c", a) : a \in CAttrChoices}
    \cup {VElement, StartElement("f", << >>)}

CellEvents ==
    CellStartEvents
    \cup {Characters(<<"0">>), Characters(<<"4", "2">>), EndElement, XmlError}

\* the iteration, recording the start elements
CellStep(ev) ==
    /\ Iterate(ev, MaxKindCells, MaxKindColumn)
    /\ cSeen' = IF IsStart(ev, "c") THEN <<ev.attrs>> ELSE cSeen
    /\ lastStart' = IF ev.type = "start" THEN ev.name ELSE lastStart
    /\ sinceC' = IF IsStart(ev, "c") \/ IsStart(ev, "row") THEN 0
                 ELSE sinceC + Len(dec'.cells) - Len(dec.cells)

CellStartElement == \E ev \in CellStartEvents : CellStep(ev)

CellCharacters == \E t \in { <<"0">>, <<"4", "2">> } : CellStep(Characters(t))

CellError == CellStep(XmlError)

CellOther == CellStep(EndElement)

CellNext ==
    \/ CellStartElement
    \/ CellCharacters
    \/ CellError
    \/ CellOther
    \/ SheetEnd

SpecCell == CellInit /\ [][CellNext]_vars

(***************************************************************************)
(* Properties of the decoder                                               *)
(***************************************************************************)
Last(q) == q[Len(q)]

\* the events of the shared-strings part
StringsEvents(arch) == arch[ByName(arch, StringsName)].events

\* the positions of the character data of a shared-strings part that load()
\* keeps: delivered before any read error, with a t the most recent start
\* element
Captured(events) ==
    {i \in 1..Len(events) :
        /\ events[i].type = "chars"
        /\ \A j \in 1..i : events[j].type # "error"
        /\ \E j \in 1..(i - 1) :
              /\ IsStart(events[j], "t")
              /\ \A m \in (j + 1)..(i - 1) : events[m].type # "start"}

\* the position of the k-th of them, counting from 0
NthCaptured(events, k) ==
    CHOOSE i \in Captured(events) :
        Cardinality({j \in Captured(events) : j < i}) = k

\* the call returned an error to its caller
ReturnedErr(kind) ==
    /\ last.op = "load_worksheet" /\ last.status = "Err" /\ last.err = kind
    /\ ~aborted

\* C6: a text-kind cell whose v text is the decimal index k, k below the table
\* length, gets as value the text of the (k+1)-th string load() appended to the
\* shared-string table in document order.
C6_SharedStringIndex ==
    \A k \in 0..(Len(strings) - 1) :
        (decoded.kind = "String" /\ decoded.text = NatToDigits(k)) =>
            /\ dec.cells # << >>
            /\ Last(dec.cells).value =
                 ValueString(StringsEvents(archive)[
                     NthCaptured(StringsEvents(archive), k)].text)

\* the index "2" resolved to the third string of the part
C6_Witness ==
    /\ decoded = [text |-> <<"2">>, kind |-> "String"]
    /\ Len(strings) = 3
    /\ dec.cells # << >>
    /\ Last(dec.cells).value = ValueString(<<"c">>)

\* C7: a text-kind cell whose v text is no unsigned integer, or is an index at
\* or beyond the length of the shared-string table, makes load_worksheet return
\* an error to its caller: no cell list is returned and the program does not
\* abort.
C7_BadIndexIsError ==
    (/\ decoded.kind = "String"
     /\ \/ ~ParseUsize(decoded.text).ok
        \/ NumLeq(NatToDigits(Len(strings)), ParseUsize(decoded.text).num)) =>
        (last.op = "load_worksheet" /\ last.status = "Err" /\ ~aborted)

\* C8: a number-kind cell is an integer when its text parses as an i64, a
\* float when only the f64 parse succeeds, and a float-parse error when both
\* fail: "42" is the integer 42 and "3.14" the float 3.14.
C8_IntegerBeforeFloat ==
    /\ decoded.kind = "Number" =>
          IF ParseI64(decoded.text).ok
          THEN /\ dec.cells # << >>
               /\ Last(dec.cells).value =
                    ValueInteger(ParseI64(decoded.text).neg, ParseI64(decoded.text).num)
          ELSE IF ParseF64(decoded.text).ok
          THEN /\ dec.cells # << >>
               /\ Last(dec.cells).value.tag = "Float"
               /\ Last(dec.cells).value.num = ParseF64(decoded.text).mant
               /\ Last(dec.cells).value.exp = ParseF64(decoded.text).exp
          ELSE ReturnedErr("ParseFloat")
    /\ decoded = [text |-> <<"4", "2">>, kind |-> "Number"] =>
          Last(dec.cells).value = ValueInteger(FALSE, <<"4", "2">>)
    /\ decoded = [text |-> <<"3", ".", "1", "4">>, kind |-> "Number"] =>
          Last(dec.cells).value = ValueFloat(FALSE, <<"3", "1", "4">>, 0 - 2)

\* the integer 42 followed by the float 3.14
C8_Witness ==
    /\ Len(dec.cells) = 2
    /\ dec.cells[1].value = ValueInteger(FALSE, <<"4", "2">>)
    /\ dec.cells[2].value = ValueFloat(FALSE, <<"3", "1", "4">>, 0 - 2)
    /\ decoded = [text |-> <<"3", ".", "1", "4">>, kind |-> "Number"]

HasR(attrs) == \E i \in 1..Len(attrs) : attrs[i].name = "r"

RText(attrs) == LastAttr(attrs, "r", EmptyStr)

Pushed == Len(dec'.cells) = Len(dec.cells) + 1

\* C9: a cell pushed after a row start element with an r attribute carries the
\* parsed value of that attribute as its row; an r attribute that is no
\* unsigned integer makes load_worksheet return a numeric-parse error.
C9_RowFromAttribute ==
    [][/\ (Pushed /\ rowSeen # << >> /\ HasR(rowSeen[1])) =>
             Last(dec'.cells).row = ParseUsize(RText(rowSeen[1])).num
       /\ (rowSeen' # << >> /\ HasR(rowSeen'[1])
             /\ ~ParseUsize(RText(rowSeen'[1])).ok) =>
             (last'.op = "load_worksheet" /\ last'.status = "Err"
                /\ last'.err = "ParseInt" /\ ~aborted')
      ]_vars

\* cells of rows 1 and 5, in this order
C9_Witness ==
    /\ Len(dec.cells) >= 2
    /\ dec.cells[1].row = <<"1">>
    /\ dec.cells[2].row = <<"5">>
    /\ rowSeen = <<<<Attr("r", <<"5">>)>>>>

\* C10: the column of a cell is the number of c start elements since the most
\* recent row start element, whatever attributes the c elements carry: the
\* counter is 0 after a row start and one more after each c.
C10_ColumnCounts ==
    [][dec'.status = "Running" =>
          /\ dec'.column = cSinceRow'
          /\ Pushed =>
                /\ Last(dec'.cells).column = cSinceRow
                /\ SubSeq(dec'.cells, 1, Len(dec.cells)) = dec.cells
      ]_vars

\* three cells of one row with columns 1, 2, 3, returned to the caller
C10_Witness ==
    /\ last.op = "load_worksheet" /\ last.status = "Ok"
    /\ Len(last.val) = 3
    /\ \A i \in 1..3 : last.val[i].column = i /\ last.val[i].row = <<"5">>
    /\ cSinceRow = 3

(***************************************************************************)
(* Properties of the document's lifecycle                                  *)
(***************************************************************************)
\* C11: once a call of load() has returned Ok, no later public call (load
\* again included) changes the relationship table, the sheet table or the
\* shared-string table.
C11_TablesPopulatedOnce ==
    [][loaded =>
          /\ relations' = relations
          /\ sheets' = sheets
          /\ strings' = strings
      ]_vars

(***************************************************************************)
(* Specification of skip_bom: load_xml has read an entry's bytes into a    *)
(* Cursor at offset 0; skip_bom leaves the cursor where the tokenizer      *)
(* starts to read.  Bytes are numbers 0..255.                              *)
(***************************************************************************)
\* the bytes the marks are made of, and '<'
BomBytes == {0, 60, 187, 191, 239, 254, 255}

RECURSIVE SeqsUpTo(_, _)
SeqsUpTo(S, n) ==
    IF n = 0 THEN { << >> }
    ELSE SeqsUpTo(S, n - 1)
         \cup {Append(q, b) : q \in {x \in SeqsUpTo(S, n - 1) : Len(x) = n - 1}, b \in S}

\* "let mut buffer = [0; 4]; reader.read(&mut buffer[..])": the first four
\* bytes, zeros where the entry is shorter
BufferOf(bytes) == [i \in 1..4 |-> IF i <= Len(bytes) THEN bytes[i] ELSE 0]

\* the cursor after the read: past the bytes it has copied
AfterRead(bytes) == IF Len(bytes) < 4 THEN Len(bytes) ELSE 4

\* the cursor skip_bom leaves: the seek of the first comparison that
\* matches, in the order of the if / else if chain
skip_bom(bytes) ==
    IF SubSeq(BufferOf(bytes), 1, 3) = <<239, 187, 191>> THEN 3
    ELSE IF SubSeq(BufferOf(bytes), 1, 2) = <<254, 255>> THEN 2
    ELSE IF SubSeq(BufferOf(bytes), 1, 2) = <<255, 254>> THEN 2
    ELSE IF BufferOf(bytes) = <<0, 0, 254, 255>> THEN 4
    ELSE IF BufferOf(bytes) = <<255, 254, 0, 0>> THEN 4
    ELSE AfterRead(bytes)

\* the archive whose entries are opened
BomArchive ==
    EntriesOf(<< <<StartElement("Relationships", << >>), EndElement>>,
                 << >>, WorkbookBase, StringsBase,
                [readable |-> TRUE, events |-> SheetBase]>>)

BomInit ==
    /\ archive = BomArchive
    /\ relations = EmptyMap
    /\ sheets = EmptyMap
    /\ strings = << >>
    /\ iterFirst = [wb |-> NoMatch, ss |-> NoMatch]
    /\ loads = 0
    /\ last = NoCall
    /\ prev = NoCall
    /\ aborted = FALSE
    /\ DecoderIdle
    /\ loaded = FALSE
    /\ reader \in {[bytes |-> b, pos |-> 0, state |-> "read"] :
                     b \in SeqsUpTo(BomBytes, MaxBytes)}

\* skip_bom(&mut file)
SkipBom ==
    /\ reader.state = "read"
    /\ reader' = [reader EXCEPT !.pos = skip_bom(reader.bytes), !.state = "skipped"]
    /\ UNCHANGED <<docVars, decVars, loaded>>

BomNext == SkipBom

SpecBom == BomInit /\ [][BomNext]_vars

\* the recognized byte-order marks, the four-byte ones first
Marks ==
    << <<0, 0, 254, 255>>, <<255, 254, 0, 0>>, <<239, 187, 191>>,
       <<254, 255>>, <<255, 254>> >>

HasMark(bytes) == \E i \in 1..Len(Marks) : StartsWith(bytes, Marks[i])

\* the length of the first mark of Marks the bytes start with
MarkLen(bytes) ==
    Len(Marks[CHOOSE i \in 1..Len(Marks) :
                /\ StartsWith(bytes, Marks[i])
                /\ \A j \in 1..(i - 1) : ~StartsWith(bytes, Marks[j])])

\* C12: on bytes that start with none of the five marks, entries shorter than
\* four bytes and XML text starting with '<' included, skip_bom leaves the
\* cursor at offset 0.
C12_NoMarkKeepsStart ==
    (reader.state = "skipped" /\ ~HasMark(reader.bytes)) => reader.pos = 0

\* C13: on bytes that start with a mark, skip_bom leaves the cursor right
\* past it, a four-byte mark taking precedence over the two-byte mark that is
\* its prefix: 3 for EF BB BF, 2 for FE FF and for FF FE, 4 for 00 00 FE FF
\* and for FF FE 00 00.
C13_MarkIsSkipped ==
    (reader.state = "skipped" /\ HasMark(reader.bytes)) =>
        reader.pos = MarkLen(reader.bytes)

(***************************************************************************)
(* Properties of the decoder's kind and capture flag                       *)
(***************************************************************************)
TOf(attrs) == LastAttr(attrs, "t", EmptyStr)

\* the kind in force after a c start element with these attributes
KindAfter(kind, attrs) ==
    IF TOf(attrs) = <<"s">> THEN "String"
    ELSE IF TOf(attrs) = <<"n">> THEN "Number"
    ELSE kind

IsCStep == cSinceRow' = cSinceRow + 1

\* C14: the kind is text until a c start element changes it; a c start
\* element sets it to text on t="s", to number on t="n" and leaves it as it
\* was otherwise; no other event changes it, a row start element included;
\* and a value is decoded with the kind in force.
C14_KindCarriesOver ==
    [][/\ cSeen = << >> => dec.kind = "String"
       /\ IF IsCStep
          THEN dec'.kind = KindAfter(dec.kind, cSeen'[1])
          ELSE dec'.kind = dec.kind
       /\ Pushed =>
             /\ (Last(dec'.cells).value.tag = "String") = (dec.kind = "String")
             /\ (Last(dec'.cells).value.tag = "Integer") = (dec.kind = "Number")
      ]_vars

\* a number decoded in a c without attributes, the first c of a row, after
\* a number cell of another row
C14_Witness ==
    /\ cSeen = << << >> >>
    /\ cSinceRow = 1 /\ sinceC = 1
    /\ Len(dec.cells) = 2
    /\ dec.cells[1].row # dec.cells[2].row
    /\ dec.cells[1].value.tag = "Integer"
    /\ dec.cells[2].value = ValueInteger(FALSE, <<"4", "2">>)
    /\ decoded.kind = "Number"

\* C15: a cell is pushed only on character data met while capture_value is
\* true; capture_value is true exactly when the most recent start element is
\* a v; so a c start element with no v start element after it gives no cell,
\* and no cell holds the empty value.
C15_CellsNeedV ==
    [][/\ Pushed =>
             /\ dec.capture_value
             /\ lastStart = "v"
             /\ Last(dec'.cells).value.tag \in {"String", "Integer", "Float"}
       /\ dec'.status = "Running" => (dec'.capture_value = (lastStart' = "v"))
       /\ \A i \in 1..Len(dec.cells) : dec.cells[i].value.tag # "Empty"
      ]_vars

\* two c start elements, the second without a v, returned as one cell
C15_Witness ==
    /\ last.op = "load_worksheet" /\ last.status = "Ok"
    /\ Len(last.val) = 1
    /\ last.val[1].column = 1
    /\ cSinceRow = 2 /\ sinceC = 0
    /\ lastStart = "c"

\* C19: at most one cell is pushed between a c start element and the next c
\* or row start element.
C19_OneCellPerC == sinceC <= 1

(***************************************************************************)
(* Properties of load() and its three stages                               *)
(***************************************************************************)
\* the positions <<entry, event>> of the relationship parts, in the order
\* load_relationships reads them
RelsPositions(arch) ==
    UNION {{<<i, j>> : j \in DOMAIN arch[i].events} :
             i \in {k \in DOMAIN arch : EndsWith(arch[k].name, RelsSuffix)}}

Earlier(p, q) == p[1] < q[1] \/ (p[1] = q[1] /\ p[2] < q[2])

EventAt(arch, p) == arch[p[1]].events[p[2]]

\* the Relationship elements read before the first read error
RelationshipsRead(arch) ==
    {p \in RelsPositions(arch) :
        /\ IsStart(EventAt(arch, p), "Relationship")
        /\ \A q \in RelsPositions(arch) :
              Earlier(q, p) => EventAt(arch, q).type # "error"}

\* the occurrence of id read last
LastOf(arch, id) ==
    CHOOSE p \in RelationshipsRead(arch) :
        /\ RelationId(EventAt(arch, p).attrs) = id
        /\ \A q \in RelationshipsRead(arch) :
              RelationId(EventAt(arch, q).attrs) = id => (q = p \/ Earlier(q, p))

\* one flat map over all relationship parts, the last occurrence of an Id
\* giving its target and kind
RelTableOf(arch) ==
    [id \in {RelationId(EventAt(arch, p).attrs) : p \in RelationshipsRead(arch)} |->
        RelationOf(EventAt(arch, LastOf(arch, id)).attrs)]

\* C16: after load() the relationship table is one flat map over the
\* Relationship elements of every entry whose name ends in .rels, read in
\* archive index order; an Id that occurs more than once has the target and
\* kind of the occurrence read last.
C16_RelationsLastWins == loads >= 1 => relations = RelTableOf(archive)

\* an Id that occurs twice in one part with two targets: the table holds the
\* second
C16_Witness ==
    /\ LoadedOk(last)
    /\ <<"rId2">> \in DOMAIN relations
    /\ relations[<<"rId2">>].target = Sheet1Name
    /\ \E i \in DOMAIN archive :
          /\ archive[i].name = BookRelsName
          /\ Len(archive[i].events) = 3
          /\ RelationId(archive[i].events[1].attrs) = <<"rId2">>
          /\ RelationOf(archive[i].events[1].attrs).target = WorkbookName
          /\ RelationId(archive[i].events[3].attrs) = <<"rId2">>

\* the events of the part a relation of the table points to
TargetEvents(arch, rels, id) == arch[ByName(arch, PathOf(rels, id))].events

\* the character data load() keeps, in document order
CapturedTexts(events) ==
    [k \in 1..Cardinality(Captured(events)) |->
        events[NthCaptured(events, k - 1)].text]

\* C17: after the first load() the shared-string table is the sequence, in
\* document order, of the character data of the shared-strings part delivered
\* while the most recent start element was a t: end elements do not end the
\* capture, any other start element does.
C17_StringsAreCapturedText ==
    (/\ last.op = "load" /\ loads = 1
     /\ Len(last.stages) = 3 /\ last.err \in {"none", "XmlRead"}) =>
        strings = CapturedTexts(TargetEvents(archive, relations, iterFirst.ss))

\* the part with character data after an end element and after another start
\* element gave the strings a and b
C17_Witness ==
    /\ LoadedOk(last) /\ loads = 1
    /\ TargetEvents(archive, relations, iterFirst.ss) = StringsMixed
    /\ strings = << <<"a">>, <<"b">> >>

\* the names of the sheet elements read before the first read error
SheetNamesRead(events) ==
    {SheetName(events[i].attrs) :
        i \in {j \in DOMAIN events :
                 /\ IsStart(events[j], "sheet")
                 /\ \A m \in 1..j : events[m].type # "error"}}

IsLoadStep == loads' = loads + 1

\* C18: load() runs relationships, workbook, shared strings in this order and
\* returns the error of the first stage that fails; what that stage and the
\* stages before it had inserted stays in the tables, and the tables of the
\* stages after it are as they were.
C18_StagesStopAtFailure ==
    [][IsLoadStep =>
          /\ last'.op = "load"
          /\ relations' = RelTableOf(archive)
          /\ CASE Len(last'.stages) = 1 ->
                    /\ last'.stages = <<"relationships">>
                    /\ last'.status = "Err"
                    /\ sheets' = sheets
                    /\ strings' = strings
               [] Len(last'.stages) = 2 ->
                    /\ last'.stages = <<"relationships", "workbook">>
                    /\ last'.status = "Err"
                    /\ DOMAIN sheets' = DOMAIN sheets \cup
                         (IF last'.err = "XmlRead"
                          THEN SheetNamesRead(
                                   TargetEvents(archive, relations', iterFirst'.wb))
                          ELSE {})
                    /\ strings' = strings
               [] OTHER ->
                    /\ last'.stages = <<"relationships", "workbook", "shared_strings">>
                    /\ last'.status \in {"Ok", "Err"}
                    /\ last'.status = "Err" =>
                          strings' = strings \o
                            (IF last'.err = "XmlRead"
                             THEN CapturedTexts(
                                      TargetEvents(archive, relations', iterFirst'.ss))
                             ELSE << >>)
      ]_vars

\* the workbook stage failed after it had inserted the sheet S1: the
\* relations and S1 are in the tables, the shared strings were not read
C18_Witness ==
    /\ last.op = "load" /\ last.status = "Err" /\ last.err = "XmlRead"
    /\ last.stages = <<"relationships", "workbook">>
    /\ DOMAIN sheets = {<<"S1">>}
    /\ relations # EmptyMap
    /\ strings = << >>

\* C20: load() is a function of the archive: whichever of the matching
\* office-document relations, and of the matching shared-strings relations,
\* the iteration of the relationship table meets first, the first load()
\* gives the same sheet table and the same shared-string table.
C20_LoadIsDeterministic ==
    (last.op = "load" /\ loads = 1) =>
        \A wb \in FirstChoices(relations, OfficeDocumentSuffix, NoMatch),
           ss \in FirstChoices(relations, SharedStringsSuffix, NoMatch) :
            /\ DoLoad(archive, EmptyMap, EmptyMap, << >>, wb, ss).sheets = sheets
            /\ DoLoad(archive, EmptyMap, EmptyMap, << >>, wb, ss).strings = strings

=============================================================================
